---- MODULE Spec2Model ----
(***************************************************************************)
(* k3s-upgrade-monitor (src/main.py): a single-threaded process that seeds *)
(* a map job UID -> tracked state from a listing of the cluster's jobs,    *)
(* then handles the events of a watch stream one by one and sends a        *)
(* notification on the transitions it recognises.                          *)
(***************************************************************************)
EXTENDS Integers, Sequences, FiniteSets, TLC

\* Number of job notifications after which the watch delivers no more events.
MaxNotes == 3

\* Number of '-'-separated segments of the job names tried on the parser.
MaxSegments == 6

VARIABLES
    pc,          \* control position of the process (module body and main())
    NTFY_URL,    \* TRUE iff the environment configures a notification endpoint
    job_states,  \* the module-level dict job UID -> tracked state
    ntfy_log,    \* calls of send_ntfy_notification so far, in order
    seeded,      \* history: UIDs registered as 'initialized' by Seeding
    path,        \* history: shape of the ADDED/MODIFIED observations of a UID
    first_seen,  \* history: what the first ADDED/MODIFIED observation of a UID was
    effects,     \* history: the effects of handle_job_event so far, in order
    named_job,   \* metadata of the job NamedUID, whose name is an input
    parsed,      \* history: what get_node_info_from_job_name returned for it
    handled      \* history: an event of the job NamedUID has been handled

vars == <<pc, NTFY_URL, job_states, ntfy_log, seeded, path, first_seen,
          effects, named_job, parsed, handled>>

\* what only handling an event changes
aux == <<effects, named_job, parsed, handled>>

----------------------------------------------------------------------------
\* Strings. A string is the sequence of its hyphens "-" and of the words
\* (maximal non-empty hyphen-free pieces) between them, so no two words are
\* adjacent in it; the empty string is <<>>.

\* str.split('-'): the segments between the hyphens, "" for an empty one
RECURSIVE Split(_)
Split(str) ==
    IF str = <<>> THEN <<"">>
    ELSE IF Head(str) = "-" THEN <<"">> \o Split(Tail(str))
    ELSE IF Len(str) = 1 THEN <<Head(str)>>
    ELSE <<Head(str)>> \o Split(Tail(Tail(str)))

\* '-'.join(segments)
RECURSIVE Join(_)
Join(segments) ==
    IF segments = <<>> THEN <<>>
    ELSE LET first == IF Head(segments) = "" THEN <<>> ELSE <<Head(segments)>>
         IN IF Len(segments) = 1 THEN first
            ELSE first \o <<"-">> \o Join(Tail(segments))

----------------------------------------------------------------------------
\* The jobs of the cluster: UID -> metadata.

UIDs == {"u1", "u2", "u3"}

\* a further job, whose metadata is an input (named_job)
NamedUID == "u0"

Cluster ==
    [u \in UIDs |->
        CASE u = "u1" -> [namespace |-> "system-upgrade",
                          name |-> <<"apply", "-", "plan", "-", "on", "-", "n1",
                                     "-", "with", "-", "h">>]
          [] u = "u2" -> [namespace |-> "system-upgrade",
                          name |-> <<"apply", "-", "foo">>]
          [] u = "u3" -> [namespace |-> "default",
                          name |-> <<"apply", "-", "plan", "-", "on", "-", "n1",
                                     "-", "with", "-", "h">>]]

Metadata(uid) == IF uid = NamedUID THEN named_job ELSE Cluster[uid]

\* job.status.active, .succeeded, .failed: None or a count; the code only
\* tests their truthiness.
Counts == {0, 1}
Statuses == [active : Counts, succeeded : Counts, failed : Counts]
EventTypes == {"ADDED", "MODIFIED", "DELETED"}
Events == [type : EventTypes, uid : UIDs, status : Statuses]

Truthy(n) == n # 0

----------------------------------------------------------------------------
\* get_node_info_from_job_name

\* Python's None, which is no string: two adjacent words
None == <<"None", "None">>

\* Variants of list.index, as slips of the code would have them: the last
\* position instead of the first; the end of the list instead of ValueError.
IndexLast(parts, x) ==
    IF \E i \in 1..Len(parts) : parts[i] = x
    THEN CHOOSE i \in 1..Len(parts) :
            parts[i] = x /\ \A j \in (i + 1)..Len(parts) : parts[j] # x
    ELSE 0

IndexOrEnd(parts, x) ==
    IF \E i \in 1..Len(parts) : parts[i] = x
    THEN CHOOSE i \in 1..Len(parts) :
            parts[i] = x /\ \A j \in 1..(i - 1) : parts[j] # x
    ELSE Len(parts) + 1

\* list.index(x): the first position of x (1-based here), 0 for ValueError
Index(parts, x) ==
    IF \E i \in 1..Len(parts) : parts[i] = x
    THEN CHOOSE i \in 1..Len(parts) :
            parts[i] = x /\ \A j \in 1..(i - 1) : parts[j] # x
    ELSE 0

\* parts[lo:hi] of Python for 0-based lo, hi with 0 <= lo: positions lo+1..hi
Slice(parts, lo, hi) ==
    IF hi > Len(parts) THEN SubSeq(parts, lo + 1, Len(parts))
    ELSE SubSeq(parts, lo + 1, hi)

get_node_info_from_job_name(job_name) ==
    LET parts == Split(job_name)
    IN IF Len(parts) < 4 THEN [node |-> None, plan |-> None]
       ELSE LET on_index == Index(parts, "on") - 1
                with_index == Index(parts, "with") - 1
            IN IF on_index < 0 \/ with_index < 0
               THEN [node |-> None, plan |-> None]
               ELSE [node |-> Join(Slice(parts, on_index + 1, with_index)),
                     plan |-> Join(Slice(parts, 1, on_index))]

\* not node_name or not plan_name: None or the empty string
Unparsed(info) ==
    \/ info.node = None \/ info.node = <<>>
    \/ info.plan = None \/ info.plan = <<>>

\* job_name.startswith('apply-')
StartsWithApply(job_name) ==
    Len(job_name) >= 2 /\ job_name[1] = "apply" /\ job_name[2] = "-"

\* the first two early returns of handle_job_event fail: the parser is called
ReachesParser(job) ==
    /\ job.namespace = "system-upgrade"
    /\ StartsWithApply(job.name)

\* Variant of the early returns: without the return on a name that does not
\* parse.
AcceptsUnparsed(job) == ReachesParser(job)

\* none of the early returns of handle_job_event is taken
Accepts(job) ==
    /\ ReachesParser(job)
    /\ ~Unparsed(get_node_info_from_job_name(job.name))

\* the jobs of the cluster that handle_job_event accepts: their names are
\* fixed, so this is computed once
AcceptedJobs == {u \in UIDs : Accepts(Cluster[u])}

Monitored(uid) ==
    IF uid = NamedUID THEN Accepts(named_job) ELSE uid \in AcceptedJobs

----------------------------------------------------------------------------
\* send_ntfy_notification

\* what a call can come to: skipped without endpoint; otherwise the POST is
\* answered 200 ("sent"), or answered otherwise or raises ("failed")
SendResults(url) == IF url THEN {"sent", "failed"} ELSE {"skipped"}

\* For the monitor's own notifications (Monitor Started, Monitor Error) the
\* log keeps only that the POST was made, not how it was answered.
Posted == "posted"

send_ntfy_notification(title, uid, status, priority, result) ==
    [title |-> title, uid |-> uid, status |-> status,
     priority |-> priority, result |-> result]

----------------------------------------------------------------------------
\* handle_job_event

\* job_states.get(job_uid)
Get(js, uid) == IF uid \in DOMAIN js THEN js[uid] ELSE "None"

Put(js, uid, state) ==
    [u \in DOMAIN js \cup {uid} |-> IF u = uid THEN state ELSE js[u]]

\* Variants of the guards, as slips of the code would have them: Started
\* firing for a job Seeding registered; Started guarded against 'running'
\* only; Completed without its guard against itself; Failed guarded against
\* 'succeeded' too.
StartedGuardIgnoringSeed(status, uid, js) ==
    Truthy(status.active) /\ Get(js, uid) \in {"None", "initialized"}

StartedGuardNotRunning(status, uid, js) ==
    Truthy(status.active) /\ Get(js, uid) # "running"

CompletedGuardUnguarded(status, uid, js) ==
    Truthy(status.succeeded)

FailedGuardExclusive(status, uid, js) ==
    Truthy(status.failed) /\ Get(js, uid) \notin {"failed", "succeeded"}

\* Started firing whatever is tracked
StartedGuardAnyState(status, uid, js) ==
    Truthy(status.active)

\* Completed firing for a job seen running only
CompletedGuardFromRunning(status, uid, js) ==
    Truthy(status.succeeded) /\ Get(js, uid) = "running"

StartedGuard(status, uid, js) ==
    Truthy(status.active) /\ uid \notin DOMAIN js

CompletedGuard(status, uid, js) ==
    Truthy(status.succeeded) /\ Get(js, uid) # "succeeded"

FailedGuard(status, uid, js) ==
    Truthy(status.failed) /\ Get(js, uid) # "failed"

\* Variant of the chain: without the test of the event type
RuleAnyType(ev, js) ==
    IF ~Monitored(ev.uid) THEN "none"
    ELSE IF StartedGuard(ev.status, ev.uid, js) THEN "Started"
    ELSE IF CompletedGuard(ev.status, ev.uid, js) THEN "Completed"
    ELSE IF FailedGuard(ev.status, ev.uid, js) THEN "Failed"
    ELSE "none"

\* Variant of the chain: the terminal branches tried before Started
RuleTerminalFirst(ev, js) ==
    IF ~Monitored(ev.uid) THEN "none"
    ELSE IF ev.type \notin {"ADDED", "MODIFIED"} THEN "none"
    ELSE IF CompletedGuard(ev.status, ev.uid, js) THEN "Completed"
    ELSE IF FailedGuard(ev.status, ev.uid, js) THEN "Failed"
    ELSE IF StartedGuard(ev.status, ev.uid, js) THEN "Started"
    ELSE "none"

\* the branch of the if/elif chain an event takes
Rule(ev, js) ==
    IF ~Monitored(ev.uid) THEN "none"
    ELSE IF ev.type \notin {"ADDED", "MODIFIED"} THEN "none"
    ELSE IF StartedGuard(ev.status, ev.uid, js) THEN "Started"
    ELSE IF CompletedGuard(ev.status, ev.uid, js) THEN "Completed"
    ELSE IF FailedGuard(ev.status, ev.uid, js) THEN "Failed"
    ELSE "none"

NewState(rule) ==
    CASE rule = "Started" -> "running"
      [] rule = "Completed" -> "succeeded"
      [] rule = "Failed" -> "failed"

Priority(rule) == IF rule = "Failed" THEN "high" ELSE "default"

\* history: the ADDED/MODIFIED observations of a monitored UID so far are
\*   "none"              none yet
\*   "raised"            none yet that had a status: the handling of one or
\*                       more raised
\*   "active"            one or more with only active set
\*   "active_succeeded"  those, then one or more with only succeeded set
\*   "other"             anything else
OnlyActive(s) == Truthy(s.active) /\ ~Truthy(s.succeeded) /\ ~Truthy(s.failed)
OnlySucceeded(s) == ~Truthy(s.active) /\ Truthy(s.succeeded) /\ ~Truthy(s.failed)

NextPath(p, s) ==
    IF OnlyActive(s) /\ p \in {"none", "raised", "active"} THEN "active"
    ELSE IF OnlySucceeded(s) /\ p \in {"active", "active_succeeded"}
         THEN "active_succeeded"
    ELSE "other"

\* history: the first ADDED/MODIFIED observation of a monitored UID
Terminal(s) ==
    ~Truthy(s.active) /\ (Truthy(s.succeeded) \/ Truthy(s.failed))

NoStatus == [active |-> 0, succeeded |-> 0, failed |-> 0]
NotSeen == [kind |-> "none", status |-> NoStatus]

FirstSeen(s, uid, js) ==
    IF Terminal(s) /\ uid \notin DOMAIN js
    THEN [kind |-> "terminal_untracked", status |-> s]
    ELSE [kind |-> "other", status |-> NoStatus]

Observes(ev) == ev.type \in {"ADDED", "MODIFIED"}

\* the effects of a branch that fires, in the order of its statements: the
\* assignment to job_states, get_k3s_version_from_node, send_ntfy_notification
Effect(op, uid) == [op |-> op, uid |-> uid]

\* Variant of a branch: the version looked up before the assignment
BranchEffectsLookupFirst(uid) ==
    <<Effect("lookup", uid), Effect("state", uid), Effect("notify", uid)>>

BranchEffects(uid) ==
    <<Effect("state", uid), Effect("lookup", uid), Effect("notify", uid)>>

\* the parser has not been called: no string either
NotParsed == [node |-> <<"not", "called">>, plan |-> <<"not", "called">>]

handle_job_event(ev, result) ==
    LET rule == Rule(ev, job_states)
    IN /\ IF rule = "none"
          THEN UNCHANGED <<job_states, ntfy_log, effects>>
          ELSE /\ job_states' = Put(job_states, ev.uid, NewState(rule))
               /\ ntfy_log' = Append(ntfy_log,
                      send_ntfy_notification(rule, ev.uid, ev.status,
                                             Priority(rule), result))
               /\ effects' = effects \o BranchEffects(ev.uid)
       /\ parsed' = IF ev.uid = NamedUID /\ ReachesParser(Metadata(ev.uid))
                    THEN get_node_info_from_job_name(Metadata(ev.uid).name)
                    ELSE parsed
       /\ path' = IF Observes(ev) /\ Monitored(ev.uid)
                  THEN [path EXCEPT ![ev.uid] = NextPath(@, ev.status)]
                  ELSE path
       /\ first_seen' = IF /\ Observes(ev) /\ Monitored(ev.uid)
                           /\ first_seen[ev.uid] = NotSeen
                        THEN [first_seen EXCEPT ![ev.uid] =
                                 FirstSeen(ev.status, ev.uid, job_states)]
                        ELSE first_seen

----------------------------------------------------------------------------
\* The process

\* in the runs of the process the job NamedUID does not exist
NoNamedJob == [namespace |-> "", name |-> <<>>]

Init ==
    /\ pc = "load"
    /\ NTFY_URL \in BOOLEAN
    /\ job_states = <<>>
    /\ ntfy_log = <<>>
    /\ seeded = {}
    /\ path = [u \in UIDs \cup {NamedUID} |-> "none"]
    /\ first_seen = [u \in UIDs \cup {NamedUID} |-> NotSeen]
    /\ effects = <<>>
    /\ named_job = NoNamedJob
    /\ parsed = NotParsed
    /\ handled = FALSE

\* config.load_incluster_config() and the clients succeed
LoadConfig ==
    /\ pc = "load"
    /\ pc' = "main"
    /\ UNCHANGED <<NTFY_URL, job_states, ntfy_log, seeded,
                   path, first_seen>>
    /\ UNCHANGED aux

\* config.load_incluster_config() raises: the process dies before main()
LoadConfigFails ==
    /\ pc = "load"
    /\ pc' = "startup_failed"
    /\ UNCHANGED <<NTFY_URL, job_states, ntfy_log, seeded,
                   path, first_seen>>
    /\ UNCHANGED aux

\* main() up to the try: the startup notification
Startup ==
    /\ pc = "main"
    /\ ntfy_log' = IF NTFY_URL
                   THEN Append(ntfy_log,
                           send_ntfy_notification("Monitor Started", "none",
                               NoStatus, "default", Posted))
                   ELSE ntfy_log
    /\ pc' = "seeding"
    /\ UNCHANGED <<NTFY_URL, job_states, seeded, path,
                   first_seen>>
    /\ UNCHANGED aux

\* the jobs of a listing that Seeding registers
Matching(items) ==
    {u \in items : /\ Metadata(u).namespace = "system-upgrade"
                   /\ StartsWithApply(Metadata(u).name)}

SeedStates(js, items) ==
    [u \in DOMAIN js \cup Matching(items) |->
        IF u \in Matching(items) THEN "initialized" ELSE js[u]]

\* Seeding: the listing succeeds with the jobs `items`
Seed ==
    /\ pc = "seeding"
    /\ \E items \in SUBSET UIDs :
          /\ job_states' = SeedStates(job_states, items)
          /\ seeded' = seeded \cup Matching(items)
    /\ pc' = "streaming"
    /\ UNCHANGED <<NTFY_URL, ntfy_log, path, first_seen>>
    /\ UNCHANGED aux

\* Seeding: batch_v1.list_job_for_all_namespaces() raises
ListFails ==
    /\ pc = "seeding"
    /\ pc' = "error"
    /\ UNCHANGED <<NTFY_URL, job_states, ntfy_log, seeded,
                   path, first_seen>>
    /\ UNCHANGED aux

\* the notifications about jobs among the calls logged
IsJobNote(n) == n.uid # "none"
JobNotes(log) == SelectSeq(log, IsJobNote)

\* Streaming: the watch delivers the event ev and handle_job_event handles
\* it; a notification it sends comes to `result`
Deliver(ev, result) ==
    /\ pc = "streaming"
    /\ Len(JobNotes(ntfy_log)) < MaxNotes
    /\ handle_job_event(ev, result)
    /\ UNCHANGED <<pc, NTFY_URL, seeded, named_job, handled>>

HandleEvent ==
    \E ev \in Events, result \in SendResults(NTFY_URL) : Deliver(ev, result)

\* Streaming: the event's job has no status (job.status is None): for a
\* monitored job and an ADDED or MODIFIED event line 98 raises
\* AttributeError before anything is assigned, and the except clause in the
\* loop catches it
MalformedEvents == [type : EventTypes, uid : UIDs]

Raises(ev) == Monitored(ev.uid) /\ Observes(ev)

RaisedPath(p) == IF p \in {"none", "raised"} THEN "raised" ELSE p

\* Variant of the except clause in the loop: the exception leaves the loop
PropagatesFromLoop == "error"

\* where main() is after the except clause in the loop
CaughtInLoop == "streaming"

DeliverMalformed(ev) ==
    /\ pc = "streaming"
    /\ Raises(ev)
    /\ pc' = CaughtInLoop
    /\ path' = [path EXCEPT ![ev.uid] = RaisedPath(@)]
    /\ UNCHANGED <<NTFY_URL, job_states, ntfy_log, seeded, first_seen>>
    /\ UNCHANGED aux

HandleEventRaises == \E ev \in MalformedEvents : DeliverMalformed(ev)

\* Streaming: the watch stream raises
StreamFails ==
    /\ pc = "streaming"
    /\ pc' = "error"
    /\ UNCHANGED <<NTFY_URL, job_states, ntfy_log, seeded,
                   path, first_seen>>
    /\ UNCHANGED aux

\* Streaming: the watch stream ends without raising; main() returns
StreamEnds ==
    /\ pc = "streaming"
    /\ pc' = "exited"
    /\ UNCHANGED <<NTFY_URL, job_states, ntfy_log, seeded,
                   path, first_seen>>
    /\ UNCHANGED aux

\* Variant of the except clause: the notification attempted without a test
\* of NTFY_URL
ReportErrorUnconditional ==
    /\ pc = "error"
    /\ ntfy_log' = Append(ntfy_log,
                       send_ntfy_notification("Monitor Error", "none",
                           NoStatus, "high", Posted))
    /\ pc' = "backoff"
    /\ UNCHANGED <<NTFY_URL, job_states, seeded, path,
                   first_seen>>
    /\ UNCHANGED aux

\* the except clause up to the sleep: the error notification
ReportError ==
    /\ pc = "error"
    /\ ntfy_log' = IF NTFY_URL
                   THEN Append(ntfy_log,
                           send_ntfy_notification("Monitor Error", "none",
                               NoStatus, "high", Posted))
                   ELSE ntfy_log
    /\ pc' = "backoff"
    /\ UNCHANGED <<NTFY_URL, job_states, seeded, path,
                   first_seen>>
    /\ UNCHANGED aux

\* time.sleep(10), after which main() returns and the process exits
Backoff ==
    /\ pc = "backoff"
    /\ pc' = "exited"
    /\ UNCHANGED <<NTFY_URL, job_states, ntfy_log, seeded,
                   path, first_seen>>
    /\ UNCHANGED aux

Next ==
    \/ LoadConfig
    \/ LoadConfigFails
    \/ Startup
    \/ Seed
    \/ ListFails
    \/ HandleEvent
    \/ HandleEventRaises
    \/ StreamFails
    \/ StreamEnds
    \/ ReportError
    \/ Backoff

Spec == Init /\ [][Next]_vars

----------------------------------------------------------------------------
\* One event of a job of any name, handled by a process that streams with
\* nothing tracked

Segments == {"apply", "on", "with", "x", ""}
FirstSegments == {"apply", "x"}

\* the names of up to MaxSegments segments that begin with a first segment
NameSegments ==
    UNION {{<<f>> \o r : f \in FirstSegments, r \in [1..k -> Segments]} :
              k \in 0..(MaxSegments - 1)}

Names == {Join(p) : p \in NameSegments}

NamedJobs == [namespace : {"system-upgrade", "default"}, name : Names]
NamedEvents == [type : EventTypes, uid : {NamedUID}, status : Statuses]

NamedInit ==
    /\ pc = "streaming"
    /\ NTFY_URL \in BOOLEAN
    /\ job_states = <<>>
    /\ ntfy_log = <<>>
    /\ seeded = {}
    /\ path = [u \in UIDs \cup {NamedUID} |-> "none"]
    /\ first_seen = [u \in UIDs \cup {NamedUID} |-> NotSeen]
    /\ effects = <<>>
    /\ named_job \in NamedJobs
    /\ parsed = NotParsed
    /\ handled = FALSE

\* the watch delivers an event of the job NamedUID and handle_job_event
\* handles it
HandleNamed ==
    /\ pc = "streaming"
    /\ ~handled
    /\ \E ev \in NamedEvents, result \in SendResults(NTFY_URL) :
          handle_job_event(ev, result)
    /\ handled' = TRUE
    /\ UNCHANGED <<pc, NTFY_URL, seeded, named_job>>

NamedNext == HandleNamed

NamedSpec == NamedInit /\ [][NamedNext]_vars

\* The process is single-threaded and every step of main() but the blocking
\* read of the watch stream returns: the listing, the notification POST
\* (timeout=10) and the sleep.
FairSpec ==
    /\ Spec
    /\ WF_vars(LoadConfig \/ LoadConfigFails)
    /\ WF_vars(Startup)
    /\ WF_vars(Seed \/ ListFails)
    /\ WF_vars(ReportError)
    /\ WF_vars(Backoff)

----------------------------------------------------------------------------
\* What the notifications logged say about one job

NotesOf(uid) == SelectSeq(ntfy_log, LAMBDA n : n.uid = uid)

Titles(uid) == [i \in 1..Len(NotesOf(uid)) |-> NotesOf(uid)[i].title]

Count(uid, title) ==
    Cardinality({i \in 1..Len(ntfy_log) :
                    ntfy_log[i].uid = uid /\ ntfy_log[i].title = title})

JobTitles == {"Started", "Completed", "Failed"}
AllResults == {"sent", "failed", "skipped"}

ObservingTypes == {t \in EventTypes : Observes([type |-> t])}
FailedStatuses == {s \in Statuses : Truthy(s.failed)}

\* ev carries the status of the observation that last fired a notification
\* for its UID
Replays(ev) ==
    /\ Observes(ev)
    /\ NotesOf(ev.uid) # <<>>
    /\ NotesOf(ev.uid)[Len(NotesOf(ev.uid))].status = ev.status

----------------------------------------------------------------------------
\* C1: for every job UID at most one Started, at most one Completed and at
\* most one Failed notification is emitted, whatever events are delivered.
C1_AtMostOnePerKind ==
    \A u \in UIDs, t \in JobTitles : Count(u, t) <= 1

\* C2: a redelivered observation whose status flags equal those of the
\* observation that last fired a notification for the UID emits no
\* notification and leaves job_states unchanged.
C2_ReplayIsSilent ==
    [][\A ev \in Events, r \in AllResults :
          (Replays(ev) /\ Deliver(ev, r))
              => (ntfy_log' = ntfy_log /\ job_states' = job_states)]_vars

\* C3: a job that was not pre-seeded and whose observations are some with
\* only active set, then some with only succeeded set, has produced exactly
\* one Started while only the former were seen, and exactly one Started
\* followed by exactly one Completed once the latter were seen.
C3_StartedThenCompleted ==
    \A u \in UIDs \ seeded :
        /\ path[u] = "active" => Titles(u) = <<"Started">>
        /\ path[u] = "active_succeeded" => Titles(u) = <<"Started", "Completed">>

C3_Witness ==
    /\ "u1" \notin seeded
    /\ path["u1"] = "active_succeeded"
    /\ Titles("u1") = <<"Started", "Completed">>

\* C4: a job UID Seeding registered as 'initialized' never produces a
\* Started notification, whatever events are delivered for it afterwards.
C4_SeededNeverStarted ==
    \A u \in seeded : Count(u, "Started") = 0

C4_Witness ==
    /\ "u1" \in seeded
    /\ path["u1"] = "active"
    /\ job_states["u1"] = "initialized"

\* C5: after a fatal error the monitor sleeps the backoff and then
\* re-enters Seeding: the step that ends the backoff leads to Seeding.
C5_BackoffReentersSeeding ==
    [][pc = "backoff" => pc' = "seeding"]_vars

\* C6: once started, the monitor never terminates on its own: main() does
\* not return, neither when the stream ends nor after a fatal error.
C6_NeverExits ==
    pc # "exited"

\* C7: Seeding runs again in the same process after a fatal error, and a UID
\* that had a state then (running, succeeded or failed) has kept it when
\* Streaming is entered again.
C7_ReseedingKeepsState ==
    \A u \in UIDs, s \in {"running", "succeeded", "failed"} :
        (pc = "backoff" /\ Get(job_states, u) = s)
            ~> (pc = "streaming" /\ Get(job_states, u) = s)

\* C8: once the tracked state of a UID is 'succeeded', every ADDED/MODIFIED
\* observation of it with failed > 0 sets the state to 'failed' and emits a
\* Failed notification.
C8_FailedAfterSucceeded ==
    [][\A u \in UIDs :
          (pc = "streaming" /\ Get(job_states, u) = "succeeded")
              => \A t \in ObservingTypes, s \in FailedStatuses,
                    r \in SendResults(NTFY_URL) :
                    Deliver([type |-> t, uid |-> u, status |-> s], r)
                        => /\ job_states' = Put(job_states, u, "failed")
                           /\ Len(ntfy_log') = Len(ntfy_log) + 1
                           /\ ntfy_log'[Len(ntfy_log')].title = "Failed"
                           /\ ntfy_log'[Len(ntfy_log')].uid = u]_vars

C8_Witness ==
    /\ Get(job_states, "u1") = "failed"
    /\ \E i \in 1..(Len(NotesOf("u1")) - 1) :
          /\ Titles("u1")[i] = "Completed"
          /\ Titles("u1")[i + 1] = "Failed"

\* C9: a job whose first observation is terminal (succeeded > 0 or
\* failed > 0, not active) while its UID is untracked gets the terminal
\* notification of that observation as its first notification, and never a
\* Started notification.
C9_TerminalFirstNeverStarted ==
    \A u \in UIDs :
        first_seen[u].kind = "terminal_untracked"
            => /\ NotesOf(u) # <<>>
               /\ NotesOf(u)[1].status = first_seen[u].status
               /\ NotesOf(u)[1].title =
                     IF Truthy(first_seen[u].status.succeeded)
                     THEN "Completed" ELSE "Failed"
               /\ Count(u, "Started") = 0

C9_Witness ==
    /\ first_seen["u1"].kind = "terminal_untracked"
    /\ Len(NotesOf("u1")) = 2
    /\ Truthy(NotesOf("u1")[2].status.active)

\* C10: when the delivery of a job notification fails, the monitor keeps
\* streaming with the transition recorded in job_states, and no later
\* observation with the same status sends that notification again.
C10_FailedDeliveryNotRetried ==
    /\ \A u \in UIDs :
          (/\ NotesOf(u) # <<>>
           /\ NotesOf(u)[Len(NotesOf(u))].result = "failed")
              => Get(job_states, u) = NewState(NotesOf(u)[Len(NotesOf(u))].title)
    /\ \A u \in UIDs : \A i, j \in 1..Len(NotesOf(u)) :
          (/\ i < j
           /\ NotesOf(u)[i].result = "failed"
           /\ NotesOf(u)[j].status = NotesOf(u)[i].status)
              => NotesOf(u)[j].title # NotesOf(u)[i].title

----------------------------------------------------------------------------
\* What is said of a job name, read off the string itself

Name == named_job.name

Occurrences(str, word) == Cardinality({i \in 1..Len(str) : str[i] = word})

\* str is apply-<plan>-on-<node>-with-<hash> with "on" at position i and
\* "with" at position j, <plan> and <node> non-empty and without a segment
\* "on" or "with"
HasForm(str, i, j) ==
    /\ 3 < i - 1 /\ i + 2 < j - 1 /\ j + 1 <= Len(str)
    /\ str[1] = "apply" /\ str[2] = "-"
    /\ str[i - 1] = "-" /\ str[i] = "on" /\ str[i + 1] = "-"
    /\ str[j - 1] = "-" /\ str[j] = "with" /\ str[j + 1] = "-"
    /\ \A k \in (3..(i - 2)) \cup ((i + 2)..(j - 2)) : str[k] \notin {"on", "with"}

PlanOf(str, i) == SubSeq(str, 3, i - 2)
NodeOf(str, i, j) == SubSeq(str, i + 2, j - 2)

\* the event of the job NamedUID was ignored
Ignored == job_states = <<>> /\ ntfy_log = <<>> /\ effects = <<>>

\* C11: an event whose job is in another namespace than system-upgrade, or
\* whose name does not start with "apply-", or whose name does not parse
\* into a non-empty node and plan, is ignored: job_states is unchanged, no
\* node version lookup is made and no notification is sent.
C11_UnmonitoredIgnored ==
    (/\ handled
     /\ \/ named_job.namespace # "system-upgrade"
        \/ ~StartsWithApply(Name)
        \/ Unparsed(get_node_info_from_job_name(Name)))
        => Ignored

C11_Witness ==
    /\ handled
    /\ named_job.namespace = "default"
    /\ Name = <<"apply", "-", "x", "-", "on", "-", "x", "-", "with", "-", "x">>
    /\ Ignored

C13_AbsentOrRepeatedTokenDropped ==
    (/\ handled
     /\ ReachesParser(named_job)
     /\ \/ Occurrences(Name, "on") # 1
        \/ Occurrences(Name, "with") # 1)
        => (parsed = [node |-> None, plan |-> None] /\ Ignored)

\* C13 as amended: a job name in which "on" or "with" is absent fails to
\* parse and its observation is dropped; a name of four or more segments in
\* which both occur is parsed, also when one of them occurs more than once.
C13_AbsentTokenDropped ==
    (handled /\ ReachesParser(named_job))
        => /\ (Occurrences(Name, "on") = 0 \/ Occurrences(Name, "with") = 0)
                => (parsed = [node |-> None, plan |-> None] /\ Ignored)
           /\ (/\ Occurrences(Name, "on") >= 1
               /\ Occurrences(Name, "with") >= 1
               /\ Occurrences(Name, "-") >= 3)
                => (parsed.node # None /\ parsed.plan # None)

C13_Witness ==
    /\ handled
    /\ ReachesParser(named_job)
    /\ Name = <<"apply", "-", "x", "-", "on", "-", "x", "-", "x", "-", "x">>
    /\ parsed = [node |-> None, plan |-> None]
    /\ Ignored

----------------------------------------------------------------------------
\* What delivering an event adds to the notifications logged

\* the jobs in system-upgrade whose names start with apply- and parse
ParseableJobs ==
    {u \in UIDs :
        /\ Cluster[u].namespace = "system-upgrade"
        /\ StartsWithApply(Cluster[u].name)
        /\ ~Unparsed(get_node_info_from_job_name(Cluster[u].name))}

SucceededStatuses == {s \in Statuses : s.succeeded > 0}
FailedOnlyStatuses == {s \in Statuses : s.failed > 0 /\ s.succeeded = 0}

\* the step appends one notification of this title for the UID and status
Emits(title, u, s) ==
    /\ Len(ntfy_log') = Len(ntfy_log) + 1
    /\ SubSeq(ntfy_log', 1, Len(ntfy_log)) = ntfy_log
    /\ ntfy_log'[Len(ntfy_log')].title = title
    /\ ntfy_log'[Len(ntfy_log')].uid = u
    /\ ntfy_log'[Len(ntfy_log')].status = s

\* a Failed notification of an observation with succeeded = 0 is logged
FailedOnlyReported(u) ==
    \E i \in 1..Len(ntfy_log) :
        /\ ntfy_log[i].uid = u
        /\ ntfy_log[i].title = "Failed"
        /\ ntfy_log[i].status \in FailedOnlyStatuses

\* delivering some ADDED/MODIFIED observation of the UID with one of these
\* statuses would append something else than one notification of this title,
\* or nothing
FailsToEmit(title, u, statuses) ==
    ENABLED (\E t \in ObservingTypes, s \in statuses,
                r \in SendResults(NTFY_URL) :
                /\ Deliver([type |-> t, uid |-> u, status |-> s], r)
                /\ ~Emits(title, u, s))

\* C14 as stated: a UID that Seeding registered as 'initialized' has its
\* terminal transition reported: its first later ADDED/MODIFIED observation
\* with succeeded > 0 (none has emitted Completed yet) emits Completed, and
\* its first with failed > 0 and succeeded = 0 (none has emitted Failed yet)
\* emits Failed.
C14_SeededTerminalReported ==
    \A u \in seeded :
        /\ Count(u, "Completed") = 0
              => ~FailsToEmit("Completed", u, SucceededStatuses)
        /\ ~FailedOnlyReported(u)
              => ~FailsToEmit("Failed", u, FailedOnlyStatuses)

\* C14 as amended: this holds of a seeded UID whose job name parses, with
\* Failed emitted unless a Failed notification was emitted for the UID
\* before.
C14_ParsedSeededTerminalReported ==
    \A u \in seeded :
        u \in ParseableJobs
            => /\ Count(u, "Completed") = 0
                     => ~FailsToEmit("Completed", u, SucceededStatuses)
               /\ Count(u, "Failed") = 0
                     => ~FailsToEmit("Failed", u, FailedOnlyStatuses)

\* a seeded UID whose first notification is Completed and another run in
\* which it is Failed are both wanted; one state shows the first followed by
\* a Failed of an observation with succeeded = 0
C14_Witness ==
    /\ "u1" \in seeded
    /\ Len(NotesOf("u1")) >= 2
    /\ NotesOf("u1")[1].title = "Completed"
    /\ NotesOf("u1")[2].title = "Failed"
    /\ NotesOf("u1")[2].status \in FailedOnlyStatuses

\* C15: the tracked state of a UID only advances: a UID in job_states is
\* never removed, one in 'running', 'succeeded' or 'failed' never goes back
\* to 'initialized', and one in 'succeeded' or 'failed' never goes back to
\* 'running'.
C15_StateOnlyAdvances ==
    [][\A u \in DOMAIN job_states :
          /\ u \in DOMAIN job_states'
          /\ job_states[u] \in {"running", "succeeded", "failed"}
                => job_states'[u] # "initialized"
          /\ job_states[u] \in {"succeeded", "failed"}
                => job_states'[u] # "running"]_vars

\* a UID that went through 'running', 'succeeded' and 'failed'
C15_Witness ==
    /\ Titles("u1") = <<"Started", "Completed", "Failed">>
    /\ Get(job_states, "u1") = "failed"

\* C16: one call of handle_job_event fires at most one rule and emits at
\* most one notification: a step adds at most one state write, one lookup
\* and one notification, and the notification is that of the first rule, in
\* the order Started, Completed, Failed, whose guard holds of the observation
\* and the state before.
C16_OneRuleInOrder ==
    [][pc = "streaming" =>
       /\ Len(ntfy_log') <= Len(ntfy_log) + 1
       /\ Len(effects') <= Len(effects) + 3
       /\ Cardinality({u \in DOMAIN job_states' :
                          Get(job_states, u) # job_states'[u]}) <= 1
       /\ Len(ntfy_log') = Len(ntfy_log) + 1
             => LET note == ntfy_log'[Len(ntfy_log')]
                    started == StartedGuard(note.status, note.uid, job_states)
                    completed == CompletedGuard(note.status, note.uid, job_states)
                    failed == FailedGuard(note.status, note.uid, job_states)
                IN /\ note.title = "Started" <=> started
                   /\ note.title = "Completed" <=> (~started /\ completed)
                   /\ note.title = "Failed"
                         <=> (~started /\ ~completed /\ failed)]_vars

\* an untracked job observed active with succeeded > 0 has emitted Started
\* only
C16_Witness ==
    /\ "u1" \notin seeded
    /\ Titles("u1") = <<"Started">>
    /\ NotesOf("u1")[1].status.succeeded > 0
    /\ Get(job_states, "u1") = "running"

\* C17: an exception raised while handling one event is caught for that
\* event only: the step tracks and notifies nothing, no error notification
\* is sent, and main() stays in the watch loop, where the next event is
\* handled.
C17_HandlerExceptionCaught ==
    [][\A ev \in MalformedEvents :
          DeliverMalformed(ev)
              => /\ pc' = "streaming"
                 /\ UNCHANGED <<job_states, ntfy_log, effects>>]_vars

\* the handling of an event of u1 has raised, and an event of u1 delivered
\* next emits Started
C17_Witness ==
    /\ path["u1"] = "raised"
    /\ pc = "streaming"
    /\ ENABLED (\E t \in ObservingTypes, s \in Statuses,
                   r \in SendResults(NTFY_URL) :
                   /\ Deliver([type |-> t, uid |-> "u1", status |-> s], r)
                   /\ Emits("Started", "u1", s))

----------------------------------------------------------------------------
\* The monitor's error notifications

ErrorNotes == SelectSeq(ntfy_log, LAMBDA n : n.title = "Monitor Error")

\* C18: an exception that reaches the except clause of main() (a fatal
\* error of the listing or of the watch stream) produces exactly one
\* 'Monitor Error' notification of high priority if and only if NTFY_URL is
\* set, and it is there when the backoff pause begins; nothing else produces
\* one: there is none before the except clause has run, whatever events
\* raised and whatever notifications failed.
C18_OneErrorNotificationBeforeBackoff ==
    /\ \A i \in 1..Len(ErrorNotes) : ErrorNotes[i].priority = "high"
    /\ pc = "backoff" => Len(ErrorNotes) = IF NTFY_URL THEN 1 ELSE 0
    /\ pc = "exited" => Len(ErrorNotes) <= 1
    /\ pc \notin {"backoff", "exited"} => ErrorNotes = <<>>

\* the backoff pause after a stream in which a job notification failed
C18_Witness ==
    /\ pc = "backoff"
    /\ NTFY_URL
    /\ Len(ErrorNotes) = 1
    /\ ntfy_log[Len(ntfy_log)].title = "Monitor Error"
    /\ \E i \in 1..Len(ntfy_log) : ntfy_log[i].result = "failed"

----------------------------------------------------------------------------
\* C19: every job notification is justified by the observation that
\* triggered it (Started by active truthy, Completed by succeeded > 0,
\* Failed by failed > 0), and the effects of the handler are, for each job
\* notification in turn, the assignment to job_states, then one version
\* lookup, then the notification, and nothing else: no lookup without a
\* rule firing.
C19_JustifiedAndOrdered ==
    LET notes == JobNotes(ntfy_log)
    IN /\ \A i \in 1..Len(notes) :
             /\ notes[i].title = "Started" => Truthy(notes[i].status.active)
             /\ notes[i].title = "Completed" => notes[i].status.succeeded > 0
             /\ notes[i].title = "Failed" => notes[i].status.failed > 0
       /\ Len(effects) = 3 * Len(notes)
       /\ \A i \in 1..Len(notes) :
             /\ effects[3 * i - 2] = [op |-> "state", uid |-> notes[i].uid]
             /\ effects[3 * i - 1] = [op |-> "lookup", uid |-> notes[i].uid]
             /\ effects[3 * i] = [op |-> "notify", uid |-> notes[i].uid]

\* all three rules have fired for one job
C19_Witness ==
    /\ Titles("u1") = <<"Started", "Completed", "Failed">>
    /\ Len(effects) = 9

NotObservingTypes == EventTypes \ {"ADDED", "MODIFIED"}

\* C20: an event whose type is neither ADDED nor MODIFIED changes nothing in
\* job_states and emits nothing, also for a monitored job whose name parses:
\* the entry of a deleted job stays as it was. No such event can be delivered
\* with another outcome.
C20_OtherTypesChangeNothing ==
    \A u \in ParseableJobs :
        ~ENABLED (\E t \in NotObservingTypes, s \in Statuses,
                     r \in SendResults(NTFY_URL) :
                     /\ Deliver([type |-> t, uid |-> u, status |-> s], r)
                     /\ \/ job_states' # job_states
                        \/ ntfy_log' # ntfy_log
                        \/ effects' # effects)

\* a monitored job tracked as 'running' for which a DELETED event is
\* delivered: the event changes nothing, so the state after it is this one
C20_Witness ==
    /\ Get(job_states, "u1") = "running"
    /\ ENABLED (\E s \in Statuses, r \in SendResults(NTFY_URL) :
                   /\ Deliver([type |-> "DELETED", uid |-> "u1", status |-> s], r)
                   /\ Get(job_states', "u1") = "running")

====
